---------------------------- MODULE Spec2Model ----------------------------
(***************************************************************************)
(* A model of src/app.py: the two request handlers convert_tracks          *)
(* (POST /api/convert) and import_playlist (POST /api/playlist).           *)
(*                                                                         *)
(* One behaviour of the model is one request.  Init draws the request and  *)
(* the outcome of every outbound call the request can make (the playlist   *)
(* page, one track page per track, one catalog search per track); the     *)
(* actions are the steps of the handler and of the worker threads of its   *)
(* two thread pools.                                                       *)
(*                                                                         *)
(* Python values.  A str is a sequence of one-character strings where the  *)
(* code looks inside it (subtitles, the request URL, track URIs) and a     *)
(* one-element sequence holding the whole text where the code only passes  *)
(* it on (titles, image URLs, video ids).  None is the sequence <<"None">>,*)
(* a missing dict key is <<"absent">>.  Python indexes from 0, the         *)
(* sequences here from 1.                                                  *)
(***************************************************************************)
EXTENDS Integers, Sequences, FiniteSets, TLC

VARIABLES
    op,               \* which handler serves the request
    req,              \* the request body
    env,              \* the outcome of every outbound call of the request
    pc,               \* the handler's position
    loc,              \* convert_tracks: the loop's locals i, title, artists
    results,          \* the handler's local `results`
    response,         \* the HTTP response, [status |-> 0] until returned
    playlist_id,
    owner_name,
    cover_image_url,
    track_data_list,
    artFutures,       \* future_to_track of the artwork pool, by index
    art_results_dict, \* results_dict of the artwork fan-in
    tracks,           \* track data joined with album_arts
    ytFutures,        \* future_to_track of the matcher pool, by index
    yt_results_dict,  \* results_dict of the matcher fan-in
    calls             \* outbound calls issued so far

vars == <<op, req, env, pc, loc, results, response, playlist_id, owner_name,
          cover_image_url, track_data_list, artFutures, art_results_dict,
          tracks, ytFutures, yt_results_dict, calls>>

-----------------------------------------------------------------------------
(* Bounds of the model *)

\* longest track list of a request whose tracks are drawn freely
MaxTracks == 2

\* how many tracks more than the artwork pool has workers, in the requests
\* that fill both pools
PoolExtra == 1

-----------------------------------------------------------------------------
(* Python values *)

None == <<"None">>

Absent == <<"absent">>

Whitespace == {" ", "\t", "\n"}

Min(S) == CHOOSE x \in S : \A y \in S : x <= y

Max(S) == CHOOSE x \in S : \A y \in S : x >= y

\* bool(v) of a str or None
Truthy(v) == v # None /\ v # Absent /\ v # <<>>

\* d.get(key, default): the value, or the default when the key is missing
Get(v, default) == IF v = Absent THEN default ELSE v

\* str.strip()
Strip(s) ==
    LET keep == {i \in 1..Len(s) : s[i] \notin Whitespace}
    IN  IF keep = {} THEN <<>> ELSE SubSeq(s, Min(keep), Max(keep))

RECURSIVE SplitFrom(_, _, _, _)
SplitFrom(s, sep, i, cur) ==
    IF i > Len(s) THEN <<cur>>
    ELSE IF s[i] = sep THEN <<cur>> \o SplitFrom(s, sep, i + 1, <<>>)
    ELSE SplitFrom(s, sep, i + 1, Append(cur, s[i]))

\* str.split(sep) for a one-character separator
Split(s, sep) == SplitFrom(s, sep, 1, <<>>)

RECURSIVE Join(_, _)
\* sep.join(list)
Join(list, sep) ==
    IF list = <<>> THEN <<>>
    ELSE IF Len(list) = 1 THEN list[1]
    ELSE list[1] \o sep \o Join(Tail(list), sep)

\* [a.strip() for a in list]
StripAll(list) == [k \in 1..Len(list) |-> Strip(list[k])]

Alnum ==
    {"a","b","c","d","e","f","g","h","i","j","k","l","m","n","o","p","q","r",
     "s","t","u","v","w","x","y","z","A","B","C","D","E","F","G","H","I","J",
     "K","L","M","N","O","P","Q","R","S","T","U","V","W","X","Y","Z","0","1",
     "2","3","4","5","6","7","8","9"}

PlaylistSlash == <<"p","l","a","y","l","i","s","t","/">>

\* the positions where re.search(r'playlist/([a-zA-Z0-9]+)', url) can match
MatchStarts(url) ==
    {p \in 1..Len(url) :
        /\ p + Len(PlaylistSlash) <= Len(url)
        /\ SubSeq(url, p, p + Len(PlaylistSlash) - 1) = PlaylistSlash
        /\ url[p + Len(PlaylistSlash)] \in Alnum}

\* group(1) of the leftmost match: the longest run of [a-zA-Z0-9]
MatchGroup(url) ==
    LET from == Min(MatchStarts(url)) + Len(PlaylistSlash)
        stop == {q \in from..Len(url) : url[q] \notin Alnum}
        to   == IF stop = {} THEN Len(url) ELSE Min(stop) - 1
    IN  SubSeq(url, from, to)

-----------------------------------------------------------------------------
(* The Search Catalog: yt_dlp.YoutubeDL(YDL_OPTS).extract_info(query) *)

\* what extract_info does: "info" returns a dict with an 'entries' list,
\* "none" returns None (or a dict without 'entries'), "raise" raises
Info(kind, entries, msg) == [kind |-> kind, entries |-> entries, msg |-> msg]

\* info and 'entries' in info and len(info['entries']) > 0
HasCandidates(info) == info.kind = "info" /\ Len(info.entries) > 0

OfficialAudio == <<" official audio">>

\* f"{' '.join(artists)} {title} official audio"
Query(artists, title) == Join(artists, <<" ">>) \o <<" ">> \o title \o OfficialAudio

NoResultsFound == <<"No results found">>

-----------------------------------------------------------------------------
(* Responses *)

NoResponse == [status |-> 0]

\* jsonify({'error': msg}), status
ErrorResponse(status, msg) == [status |-> status, error |-> msg]

\* mutant of Successful: counts the entries that hold a youtubeId, not the
\* entries whose success is true
SuccessfulByYoutubeId(rs) ==
    Cardinality({k \in 1..Len(rs) : rs[k].youtubeId # None})

\* sum(1 for r in results if r['success'])
Successful(rs) == Cardinality({k \in 1..Len(rs) : rs[k].success})

\* the 'summary' object; total is len(tracks), not len(results)
Summary(total, rs) ==
    [total |-> total, successful |-> Successful(rs),
     failed |-> total - Successful(rs)]

-----------------------------------------------------------------------------
(* convert_tracks, src/app.py lines 48-125 *)

\* the entry appended when the search has a candidate (lines 77-90)
ConvertFound(title, artists, video) ==
    [title |-> title, artists |-> artists,
     youtubeId |-> Get(video.id, None),
     youtubeTitle |-> Get(video.title, None),
     duration |-> Get(video.duration, None),
     thumbnail |-> <<"https://i.ytimg.com/vi/">> \o Get(video.id, None)
                     \o <<"/hqdefault.jpg">>,
     success |-> TRUE]

\* the entry appended by the else branch and by the inner except
ConvertFailed(title, artists, msg) ==
    [title |-> title, artists |-> artists, youtubeId |-> None,
     success |-> FALSE, error |-> msg]

\* a JSON value read where the code expects a list: kind "list" with its
\* items, "absent" when the key is missing, "null" for a JSON null
List(kind, items) == [kind |-> kind, items |-> items]

\* d.get(key, default) of such a value
ListValue(v, default) ==
    IF v.kind = "absent" THEN default
    ELSE IF v.kind = "null" THEN None
    ELSE v.items

\* a descriptor on which lines 65-69 run without raising: a dict whose
\* 'artists', when given, is a list of str
WellFormed(track) == track.isdict /\ track.artists.kind # "null"

\* data = request.json; tracks = data.get('tracks', []); if not tracks
ConvertValidate ==
    /\ op = "convert"
    /\ pc = "start"
    /\ IF req.body # "dict"
         THEN \* request.json raised, or returned None and data.get raised
              /\ response' = ErrorResponse(500, <<"no JSON body">>)
              /\ pc' = "done"
         ELSE IF req.tracks = <<>>
         THEN /\ response' = ErrorResponse(400, <<"No tracks provided">>)
              /\ pc' = "done"
         ELSE /\ response' = response
              /\ pc' = "convert_loop"
    /\ UNCHANGED <<op, req, env, loc, results, playlist_id, owner_name,
                   cover_image_url, track_data_list, artFutures,
                   art_results_dict, tracks, ytFutures, yt_results_dict,
                   calls>>

\* the locals after lines 65-66 of one iteration have run
ConvertLocals(track) ==
    IF ~track.isdict THEN loc
    ELSE [loc EXCEPT !.bound = TRUE,
                     !.title = Get(track.title, <<>>),
                     !.artists = ListValue(track.artists, <<>>)]

\* one iteration of the for loop of lines 63-109, its except included
ConvertTrack ==
    /\ op = "convert"
    /\ pc = "convert_loop"
    /\ loc.i <= Len(req.tracks)
    /\ LET track == req.tracks[loc.i]
           l     == ConvertLocals(track)
           info  == env.search[loc.i]
           q     == Query(l.artists, l.title)
       IN  IF WellFormed(track)
           THEN \* the search of line 74 is issued
                /\ calls' = [calls EXCEPT !.search[loc.i] = Append(@, q)]
                /\ loc' = [l EXCEPT !.i = @ + 1]
                /\ results' = Append(results,
                     IF info.kind = "raise"
                       THEN ConvertFailed(l.title, l.artists, info.msg)
                     ELSE IF HasCandidates(info)
                       THEN ConvertFound(l.title, l.artists, info.entries[1])
                     ELSE ConvertFailed(l.title, l.artists, NoResultsFound))
                /\ UNCHANGED <<pc, response>>
           ELSE IF l.bound
           THEN \* lines 65-69 raised; the except reads the locals title
                \* and artists, which hold what was last assigned to them
                /\ loc' = [l EXCEPT !.i = @ + 1]
                /\ results' = Append(results,
                     ConvertFailed(l.title, l.artists, <<"AttributeError">>))
                /\ UNCHANGED <<pc, response, calls>>
           ELSE \* the except's own read of title raises NameError, which
                \* the outer except of line 123 turns into a 500
                /\ response' = ErrorResponse(500, <<"NameError">>)
                /\ pc' = "done"
                /\ UNCHANGED <<loc, results, calls>>
    /\ UNCHANGED <<op, req, env, playlist_id, owner_name, cover_image_url,
                   track_data_list, artFutures, art_results_dict, tracks,
                   ytFutures, yt_results_dict>>

\* lines 111-121
ConvertRespond ==
    /\ op = "convert"
    /\ pc = "convert_loop"
    /\ loc.i > Len(req.tracks)
    /\ response' = [status |-> 200, results |-> results,
                    summary |-> Summary(Len(req.tracks), results)]
    /\ pc' = "done"
    /\ UNCHANGED <<op, req, env, loc, results, playlist_id, owner_name,
                   cover_image_url, track_data_list, artFutures,
                   art_results_dict, tracks, ytFutures, yt_results_dict,
                   calls>>

-----------------------------------------------------------------------------
(* import_playlist, src/app.py lines 182-411: the playlist page *)

\* what requests.get and the parse of its markup give: kind "raise" when
\* the call raises (network error, timeout), else the status code, whether
\* the markup holds the script tag __NEXT_DATA__, whether its JSON holds
\* the path props.pageProps.state.data.entity, and that entity
Page(kind, status, script, path, entity) ==
    [kind |-> kind, status |-> status, script |-> script, path |-> path,
     entity |-> entity]

\* a 'coverArt' value: has is whether the key is there, sources the value
\* of its 'sources' key, each source given by the value of its 'url' key
CoverArt(has, sources) == [has |-> has, sources |-> sources]

SpotifyUser == <<"Spotify User">>

UnknownArtist == <<"Unknown Artist">>

Unknown == <<"Unknown">>

UnknownPlaylist == <<"Unknown Playlist">>

\* entity.get('subtitle', 'Spotify User').strip() or 'Spotify User'
OwnerName(entity) ==
    LET s == Strip(Get(entity.subtitle, SpotifyUser))
    IN  IF s = <<>> THEN SpotifyUser ELSE s

\* the sources list: d.get('coverArt', {}).get('sources', [])
Sources(coverArt) ==
    IF coverArt.has THEN ListValue(coverArt.sources, <<>>) ELSE <<>>

\* mutant of LastUrl: the first source is taken, sources[0]
FirstUrl(sources) == Get(sources[1], None)

\* sources[-1].get('url')
LastUrl(sources) == Get(sources[Len(sources)], None)

\* cover_image_url = sources[-1].get('url') if sources else None
CoverImageUrl(entity) ==
    LET sources == Sources(entity.coverArt)
    IN  IF sources # <<>> THEN LastUrl(sources) ELSE None

\* mutant of TrackArtists: the segments are not trimmed
TrackArtistsUntrimmed(subtitle) ==
    IF Truthy(subtitle) THEN Split(subtitle, ",") ELSE <<UnknownArtist>>

\* [a.strip() for a in subtitle.split(',')] if subtitle else ['Unknown Artist']
TrackArtists(subtitle) ==
    IF Truthy(subtitle) THEN StripAll(Split(subtitle, ","))
    ELSE <<UnknownArtist>>

\* track_uri.split(':')[-1] if ':' in track_uri else None
TrackId(track_uri) ==
    IF \E k \in 1..Len(track_uri) : track_uri[k] = ":"
      THEN LET parts == Split(track_uri, ":") IN parts[Len(parts)]
      ELSE None

\* one entry of track_data_list (lines 249-259)
TrackData(track_data) ==
    [title |-> Get(track_data.title, Unknown),
     artists |-> TrackArtists(Get(track_data.subtitle, <<>>)),
     track_id |-> TrackId(Get(track_data.uri, <<>>))]

\* mutant of ScriptTagFound: the result of soup.find is not checked
ScriptTagAssumed(page) == TRUE

\* soup.find('script', {'id': '__NEXT_DATA__'}) found the tag
ScriptTagFound(page) == page.script

\* mutant of EntityPathFound: the path is read with defaults, a missing
\* segment giving an empty entity instead of raising
EntityPathAssumed(page) == TRUE

\* page_data['props']['pageProps']['state']['data']['entity'] raises no
\* KeyError: every segment of the path is there
EntityPathFound(page) == page.path

\* lines 188-201
PlaylistValidate ==
    /\ op = "playlist"
    /\ pc = "start"
    /\ IF req.body # "dict"
         THEN \* request.json raised, or returned None and data.get raised
              /\ response' = ErrorResponse(500, <<"no JSON body">>)
              /\ pc' = "done"
              /\ UNCHANGED playlist_id
         ELSE IF ~Truthy(req.url)
         THEN /\ response' = ErrorResponse(400, <<"No Spotify URL provided">>)
              /\ pc' = "done"
              /\ UNCHANGED playlist_id
         ELSE IF MatchStarts(req.url) = {}
         THEN /\ response' =
                    ErrorResponse(400, <<"Invalid Spotify playlist URL">>)
              /\ pc' = "done"
              /\ UNCHANGED playlist_id
         ELSE /\ playlist_id' = MatchGroup(req.url)
              /\ pc' = "fetch"
              /\ UNCHANGED response
    /\ UNCHANGED <<op, req, env, loc, results, owner_name, cover_image_url,
                   track_data_list, artFutures, art_results_dict, tracks,
                   ytFutures, yt_results_dict, calls>>

\* lines 213-218: the one requests.get of the playlist page
PlaylistFetch ==
    /\ op = "playlist"
    /\ pc = "fetch"
    /\ calls' = [calls EXCEPT !.playlist = @ + 1]
    /\ IF env.page.kind = "raise"
         THEN /\ response' = ErrorResponse(500, <<"requests exception">>)
              /\ pc' = "done"
         ELSE IF env.page.status # 200
         THEN /\ response' = ErrorResponse(400, <<"Failed to fetch playlist">>)
              /\ pc' = "done"
         ELSE /\ pc' = "extract"
              /\ UNCHANGED response
    /\ UNCHANGED <<op, req, env, loc, results, playlist_id, owner_name,
                   cover_image_url, track_data_list, artFutures,
                   art_results_dict, tracks, ytFutures, yt_results_dict>>

\* lines 220-259
PlaylistExtract ==
    /\ op = "playlist"
    /\ pc = "extract"
    /\ LET entity == env.page.entity
       IN  IF ~ScriptTagFound(env.page)
           THEN /\ response' =
                      ErrorResponse(400, <<"Could not parse playlist data">>)
                /\ pc' = "done"
                /\ UNCHANGED <<owner_name, cover_image_url, track_data_list>>
           ELSE IF ~EntityPathFound(env.page)
           THEN \* line 227 raises KeyError
                /\ response' = ErrorResponse(500, <<"KeyError">>)
                /\ pc' = "done"
                /\ UNCHANGED <<owner_name, cover_image_url, track_data_list>>
           ELSE IF entity.subtitle = None
           THEN \* line 232: None has no strip
                /\ response' = ErrorResponse(500, <<"AttributeError">>)
                /\ pc' = "done"
                /\ UNCHANGED <<owner_name, cover_image_url, track_data_list>>
           ELSE /\ owner_name' = OwnerName(entity)
                /\ cover_image_url' = CoverImageUrl(entity)
                /\ track_data_list' =
                      [k \in 1..Len(entity.trackList) |->
                          TrackData(entity.trackList[k])]
                /\ pc' = "art"
                /\ UNCHANGED response
    /\ UNCHANGED <<op, req, env, loc, results, playlist_id, artFutures,
                   art_results_dict, tracks, ytFutures, yt_results_dict,
                   calls>>

-----------------------------------------------------------------------------
(* import_playlist: the two thread pools *)

\* ThreadPoolExecutor(max_workers=10), line 303
ArtworkWorkers == 10

\* ThreadPoolExecutor(max_workers=5), line 360
MatcherWorkers == 5

\* executor.submit(...): a future waiting in the pool's queue
NewFuture == [st |-> "queued", result |-> None]

\* the futures a worker thread of the pool is running
Running(futures) == {k \in 1..Len(futures) : futures[k].st = "running"}

\* mutant of CanStart: the pool starts one thread too many
CanStartOneMore(futures, i, max_workers) ==
    /\ i \in 1..Len(futures)
    /\ futures[i].st = "queued"
    /\ \A j \in 1..(i - 1) : futures[j].st # "queued"
    /\ Cardinality(Running(futures)) <= max_workers

\* mutant of CanStart: a thread of the pool runs one work item and exits, so
\* that the items queued behind the first max_workers are never taken
CanStartFirstOnly(futures, i, max_workers) ==
    /\ i \in 1..Len(futures)
    /\ futures[i].st = "queued"
    /\ \A j \in 1..(i - 1) : futures[j].st # "queued"
    /\ i <= max_workers

\* a worker takes the oldest queued work item; the pool has at most
\* max_workers threads, each running one item at a time
CanStart(futures, i, max_workers) ==
    /\ i \in 1..Len(futures)
    /\ futures[i].st = "queued"
    /\ \A j \in 1..(i - 1) : futures[j].st # "queued"
    /\ Cardinality(Running(futures)) < max_workers

\* the outcome of a future whose function raised: future.result() raises
\* it again in the thread that collects
Raised == <<"raised">>

\* mutant of FutureIndex: results are placed in the order in which the
\* futures complete, as by appending to a list
FutureIndexAsCompleted(i, results_dict) ==
    Cardinality(DOMAIN results_dict) + 1

\* index = future_to_track[future]: the index the future was submitted
\* with (enumerate, lines 304-307 and 361-364), whatever results_dict
\* holds by then
FutureIndex(i, results_dict) == i

\* mutant of Store: the result is appended in completion order, as to a list
StoreAsCompleted(results_dict, index, value) ==
    [k \in 1..(Cardinality(DOMAIN results_dict) + 1) |->
        IF k = Cardinality(DOMAIN results_dict) + 1 THEN value
        ELSE results_dict[k]]

\* results_dict[index] = future.result()
Store(results_dict, index, value) ==
    [k \in (DOMAIN results_dict) \cup {index} |->
        IF k = index THEN value ELSE results_dict[k]]

\* mutant of fetch_track_album_art: no try/except around the fetch and the
\* parse, so that a network error or a missing data path leaves the worker
\* as an exception
fetch_track_album_art_uncaught(track_info, page) ==
    IF ~Truthy(track_info.track_id) THEN cover_image_url
    ELSE IF page.kind = "raise" THEN Raised
    ELSE IF page.status = 200 /\ page.script
    THEN IF ~page.path THEN Raised
         ELSE LET track_sources == Sources(page.entity.coverArt)
              IN  IF track_sources # <<>> THEN LastUrl(track_sources)
                  ELSE cover_image_url
    ELSE cover_image_url

\* mutant of fetch_track_album_art: a track page without sources gives no
\* artwork at all instead of the playlist cover
fetch_track_album_art_nofallback(track_info, page) ==
    IF ~Truthy(track_info.track_id) THEN cover_image_url
    ELSE IF page.kind = "raise" THEN cover_image_url
    ELSE IF page.status = 200 /\ page.script
    THEN IF ~page.path THEN cover_image_url
         ELSE LET track_sources == Sources(page.entity.coverArt)
              IN  IF track_sources # <<>> THEN LastUrl(track_sources)
                  ELSE None
    ELSE cover_image_url

\* fetch_track_album_art(track_info), lines 265-299, with the track page
\* the Page Source gives for it
fetch_track_album_art(track_info, page) ==
    IF ~Truthy(track_info.track_id) THEN cover_image_url
    ELSE IF page.kind = "raise" THEN cover_image_url
    ELSE IF page.status = 200 /\ ScriptTagFound(page)
    THEN IF ~page.path THEN cover_image_url  \* KeyError, caught at line 297
         ELSE LET track_sources == Sources(page.entity.coverArt)
              IN  IF track_sources # <<>> THEN LastUrl(track_sources)
                  ELSE cover_image_url
    ELSE cover_image_url

\* mutant of fetch_youtube_id: the record for "no results" has no error
fetch_youtube_id_noreason(track_info, info) ==
    IF info.kind = "raise"
      THEN [youtubeId |-> None, success |-> FALSE, error |-> info.msg]
    ELSE IF HasCandidates(info)
      THEN LET video == info.entries[1]
           IN  [youtubeId |-> Get(video.id, None),
                youtubeTitle |-> Get(video.title, None),
                duration |-> Get(video.duration, None),
                success |-> TRUE]
    ELSE [youtubeId |-> None, success |-> FALSE]

\* fetch_youtube_id(track_info), lines 333-356, with what the catalog
\* gives for its query
fetch_youtube_id(track_info, info) ==
    IF info.kind = "raise"
      THEN [youtubeId |-> None, success |-> FALSE, error |-> info.msg]
    ELSE IF HasCandidates(info)
      THEN LET video == info.entries[1]
           IN  [youtubeId |-> Get(video.id, None),
                youtubeTitle |-> Get(video.title, None),
                duration |-> Get(video.duration, None),
                success |-> TRUE]
    ELSE [youtubeId |-> None, success |-> FALSE, error |-> NoResultsFound]

\* d.get(key)
DictGet(d, key) == IF key \in DOMAIN d THEN d[key] ELSE None

\* one executor.submit of the dict comprehension of lines 304-307
ArtSubmit ==
    /\ op = "playlist"
    /\ pc = "art"
    /\ Len(artFutures) < Len(track_data_list)
    /\ artFutures' = Append(artFutures, NewFuture)
    /\ UNCHANGED <<op, req, env, pc, loc, results, response, playlist_id,
                   owner_name, cover_image_url, track_data_list,
                   art_results_dict, tracks, ytFutures, yt_results_dict,
                   calls>>

\* a worker thread of the artwork pool starts fetch_track_album_art; the
\* requests.get of line 275 is issued when the track has a track id
ArtStart(i) ==
    /\ op = "playlist"
    /\ pc = "art"
    /\ CanStart(artFutures, i, ArtworkWorkers)
    /\ artFutures' = [artFutures EXCEPT ![i].st = "running"]
    /\ calls' = IF Truthy(track_data_list[i].track_id)
                  THEN [calls EXCEPT !.art[i] = @ + 1]
                  ELSE calls
    /\ UNCHANGED <<op, req, env, pc, loc, results, response, playlist_id,
                   owner_name, cover_image_url, track_data_list,
                   art_results_dict, tracks, ytFutures, yt_results_dict>>

\* the worker returns from fetch_track_album_art
ArtFinish(i) ==
    /\ op = "playlist"
    /\ pc = "art"
    /\ i \in Running(artFutures)
    /\ artFutures' = [artFutures EXCEPT ![i] =
           [st |-> "finished",
            result |-> fetch_track_album_art(track_data_list[i], env.art[i])]]
    /\ UNCHANGED <<op, req, env, pc, loc, results, response, playlist_id,
                   owner_name, cover_image_url, track_data_list,
                   art_results_dict, tracks, ytFutures, yt_results_dict,
                   calls>>

\* one round of the loop of lines 311-313: as_completed yields a finished
\* future, in no particular order among the finished ones
ArtCollect(i) ==
    /\ op = "playlist"
    /\ pc = "art"
    /\ Len(artFutures) = Len(track_data_list)
    /\ i \in 1..Len(artFutures)
    /\ artFutures[i].st = "finished"
    /\ artFutures' = [artFutures EXCEPT ![i].st = "yielded"]
    /\ IF artFutures[i].result = Raised
         THEN \* future.result() raises; the except of line 407 answers
              /\ response' = ErrorResponse(500, <<"worker exception">>)
              /\ pc' = "done"
              /\ UNCHANGED art_results_dict
         ELSE /\ art_results_dict' =
                    Store(art_results_dict,
                          FutureIndex(i, art_results_dict),
                          artFutures[i].result)
              /\ UNCHANGED <<pc, response>>
    /\ UNCHANGED <<op, req, env, loc, results, playlist_id, owner_name,
                   cover_image_url, track_data_list, tracks, ytFutures,
                   yt_results_dict, calls>>

\* mutant of ArtJoin: the handler does not wait for the artwork tasks; it
\* goes on once they are submitted, with the playlist cover for the tracks
\* whose result is not there yet (results_dict.get(i, cover_image_url))
ArtJoinEarly ==
    /\ op = "playlist"
    /\ pc = "art"
    /\ Len(artFutures) = Len(track_data_list)
    /\ tracks' = [k \in 1..Len(track_data_list) |->
          [title |-> track_data_list[k].title,
           artists |-> track_data_list[k].artists,
           albumArt |-> IF k \in DOMAIN art_results_dict
                          THEN art_results_dict[k]
                          ELSE cover_image_url]]
    /\ pc' = "yt"
    /\ UNCHANGED <<op, req, env, loc, results, response, playlist_id,
                   owner_name, cover_image_url, track_data_list, artFutures,
                   art_results_dict, ytFutures, yt_results_dict, calls>>

\* lines 316-328: album_arts by index, then tracks
ArtJoin ==
    /\ op = "playlist"
    /\ pc = "art"
    /\ Len(artFutures) = Len(track_data_list)
    /\ \A k \in 1..Len(artFutures) : artFutures[k].st = "yielded"
    /\ IF DOMAIN art_results_dict = 1..Len(track_data_list)
         THEN /\ tracks' = [k \in 1..Len(track_data_list) |->
                    [title |-> track_data_list[k].title,
                     artists |-> track_data_list[k].artists,
                     albumArt |-> art_results_dict[k]]]
              /\ pc' = "yt"
              /\ UNCHANGED response
         ELSE \* results_dict[i] raises KeyError
              /\ response' = ErrorResponse(500, <<"KeyError">>)
              /\ pc' = "done"
              /\ UNCHANGED tracks
    /\ UNCHANGED <<op, req, env, loc, results, playlist_id, owner_name,
                   cover_image_url, track_data_list, artFutures,
                   art_results_dict, ytFutures, yt_results_dict, calls>>

\* one executor.submit of the dict comprehension of lines 361-364
YtSubmit ==
    /\ op = "playlist"
    /\ pc = "yt"
    /\ Len(ytFutures) < Len(tracks)
    /\ ytFutures' = Append(ytFutures, NewFuture)
    /\ UNCHANGED <<op, req, env, pc, loc, results, response, playlist_id,
                   owner_name, cover_image_url, track_data_list, artFutures,
                   art_results_dict, tracks, yt_results_dict, calls>>

\* a worker thread of the matcher pool starts fetch_youtube_id and issues
\* the search of line 339
YtStart(i) ==
    /\ op = "playlist"
    /\ pc = "yt"
    /\ CanStart(ytFutures, i, MatcherWorkers)
    /\ ytFutures' = [ytFutures EXCEPT ![i].st = "running"]
    /\ calls' = [calls EXCEPT !.search[i] =
                    Append(@, Query(tracks[i].artists, tracks[i].title))]
    /\ UNCHANGED <<op, req, env, pc, loc, results, response, playlist_id,
                   owner_name, cover_image_url, track_data_list, artFutures,
                   art_results_dict, tracks, yt_results_dict>>

\* the worker returns from fetch_youtube_id
YtFinish(i) ==
    /\ op = "playlist"
    /\ pc = "yt"
    /\ i \in Running(ytFutures)
    /\ ytFutures' = [ytFutures EXCEPT ![i] =
           [st |-> "finished",
            result |-> fetch_youtube_id(tracks[i], env.search[i])]]
    /\ UNCHANGED <<op, req, env, pc, loc, results, response, playlist_id,
                   owner_name, cover_image_url, track_data_list, artFutures,
                   art_results_dict, tracks, yt_results_dict, calls>>

\* one round of the loop of lines 367-369
YtCollect(i) ==
    /\ op = "playlist"
    /\ pc = "yt"
    /\ Len(ytFutures) = Len(tracks)
    /\ i \in 1..Len(ytFutures)
    /\ ytFutures[i].st = "finished"
    /\ ytFutures' = [ytFutures EXCEPT ![i].st = "yielded"]
    /\ IF "raised" \in DOMAIN ytFutures[i].result
         THEN \* future.result() raises; the except of line 407 answers
              /\ response' = ErrorResponse(500, <<"worker exception">>)
              /\ pc' = "done"
              /\ UNCHANGED yt_results_dict
         ELSE /\ yt_results_dict' =
                    Store(yt_results_dict, FutureIndex(i, yt_results_dict),
                          ytFutures[i].result)
              /\ UNCHANGED <<pc, response>>
    /\ UNCHANGED <<op, req, env, loc, results, playlist_id, owner_name,
                   cover_image_url, track_data_list, artFutures,
                   art_results_dict, tracks, calls>>

\* one entry of the final results (lines 376-386)
Combine(track, yt_data) ==
    [title |-> track.title,
     artists |-> track.artists,
     youtubeId |-> DictGet(yt_data, "youtubeId"),
     youtubeTitle |-> DictGet(yt_data, "youtubeTitle"),
     duration |-> DictGet(yt_data, "duration"),
     albumArt |-> track.albumArt,
     success |-> IF "success" \in DOMAIN yt_data THEN yt_data.success
                 ELSE FALSE,
     error |-> DictGet(yt_data, "error")]

\* lines 371-405: youtube_results by index, the join, the summary
Aggregate ==
    /\ op = "playlist"
    /\ pc = "yt"
    /\ Len(ytFutures) = Len(tracks)
    /\ \A k \in 1..Len(ytFutures) : ytFutures[k].st = "yielded"
    /\ pc' = "done"
    /\ IF DOMAIN yt_results_dict = 1..Len(tracks)
         THEN LET rs == [k \in 1..Len(tracks) |->
                           Combine(tracks[k], yt_results_dict[k])]
              IN  /\ results' = rs
                  /\ response' =
                       [status |-> 200,
                        playlist |->
                          [name |-> Get(env.page.entity.name, UnknownPlaylist),
                           id |-> playlist_id,
                           description |->
                              Get(env.page.entity.description, None),
                           coverImageUrl |-> cover_image_url,
                           ownerName |-> owner_name],
                        results |-> rs,
                        summary |-> Summary(Len(tracks), rs)]
         ELSE \* results_dict[i] raises KeyError
              /\ response' = ErrorResponse(500, <<"KeyError">>)
              /\ UNCHANGED results
    /\ UNCHANGED <<op, req, env, loc, playlist_id, owner_name,
                   cover_image_url, track_data_list, artFutures,
                   art_results_dict, tracks, ytFutures, yt_results_dict,
                   calls>>

-----------------------------------------------------------------------------
(* The requests and the outcomes of the outbound calls *)

\* all sequences over S of length lo..hi
SeqsOf(S, lo, hi) == UNION {[1..n -> S] : n \in lo..hi}

TitleA == <<"Song A">>

TitleB == <<"Song B">>

Video1 == [id |-> <<"vid1">>, title |-> <<"Video 1">>, duration |-> <<"215">>]

\* a candidate without an 'id'
Video2 == [id |-> Absent, title |-> <<"Video 2">>, duration |-> Absent]

InfoMatch1 == Info("info", <<Video1>>, <<>>)

InfoMatch2 == Info("info", <<Video2>>, <<>>)

InfoEmpty == Info("info", <<>>, <<>>)

InfoNone == Info("none", <<>>, <<>>)

InfoRaise == Info("raise", <<>>, <<"ERROR: unable to download">>)

Infos == {InfoMatch1, InfoMatch2, InfoEmpty, InfoNone, InfoRaise}

\* descriptors of a convert_tracks batch: three dicts, a dict whose
\* 'artists' is null, and an entry that is not a dict
Descriptors ==
    {[isdict |-> TRUE, title |-> TitleA,
      artists |-> List("list", << <<"Alice">>, <<"Bob">> >>)],
     [isdict |-> TRUE, title |-> TitleB, artists |-> List("absent", <<>>)],
     [isdict |-> TRUE, title |-> Absent,
      artists |-> List("list", << <<"Carol">> >>)],
     [isdict |-> TRUE, title |-> TitleB, artists |-> List("null", <<>>)],
     [isdict |-> FALSE, title |-> Absent, artists |-> List("absent", <<>>)]}

AliceBob == <<"A","l","i","c","e",","," ","B","o","b">>

TrackSubtitles == {AliceBob, <<"B","o","b">>, <<" ","A"," ",",",","," ">>,
                   <<" ">>, <<>>, Absent, None}

UriWithId == <<"s",":","t",":","7">>

TrackUris == {UriWithId, <<"s",":","t",":">>, <<"x">>, Absent}

ImageLow == <<"https://i.scdn.co/image/low">>

ImageHigh == <<"https://i.scdn.co/image/high">>

TrackImageLow == <<"https://i.scdn.co/image/track-low">>

TrackImageHigh == <<"https://i.scdn.co/image/track-high">>

NoEntity == [coverArt |-> CoverArt(FALSE, List("absent", <<>>))]

TrackEntity(coverArt) == [coverArt |-> coverArt]

PageRaise == Page("raise", 0, FALSE, FALSE, NoEntity)

PageStatus(status) == Page("response", status, FALSE, FALSE, NoEntity)

PageNoScript == Page("response", 200, FALSE, FALSE, NoEntity)

PageNoPath == Page("response", 200, TRUE, FALSE, NoEntity)

PageEntity(entity) == Page("response", 200, TRUE, TRUE, entity)

\* what the fetch of a track page can give
TrackPages ==
    {PageRaise, PageStatus(404), PageNoScript, PageNoPath,
     PageEntity(TrackEntity(CoverArt(FALSE, List("absent", <<>>)))),
     PageEntity(TrackEntity(CoverArt(TRUE, List("absent", <<>>)))),
     PageEntity(TrackEntity(CoverArt(TRUE, List("list", <<>>)))),
     PageEntity(TrackEntity(CoverArt(TRUE, List("list", <<TrackImageLow, TrackImageHigh>>)))),
     PageEntity(TrackEntity(CoverArt(TRUE, List("list", <<TrackImageLow, Absent>>))))}

PlaylistCovers ==
    {CoverArt(FALSE, List("absent", <<>>)), CoverArt(TRUE, List("absent", <<>>)), CoverArt(TRUE, List("list", <<>>)),
     CoverArt(TRUE, List("list", <<ImageLow, ImageHigh>>)),
     CoverArt(TRUE, List("list", <<ImageHigh, Absent>>))}

\* the separator of a playlist subtitle such as "20 songs (dot) Jane Doe"
MiddleDot == "·"

JaneDoe == <<"J","a","n","e"," ","D","o","e">>

SongsJaneDoe ==
    <<"2","0"," ","s","o","n","g","s"," ",MiddleDot," ">> \o JaneDoe

Songs == <<"2","0"," ","s","o","n","g","s">>

OwnerSubtitles ==
    {SongsJaneDoe, Songs, <<" ">> \o JaneDoe \o <<" ">>, <<" ", " ">>, <<>>,
     Absent, None, Songs \o <<" ",MiddleDot," ">>}

Owners == {Absent, <<"J","a","n","e">>, <<" ">>}

Entity(name, subtitle, owner, coverArt, trackList) ==
    [name |-> name, description |-> Absent, subtitle |-> subtitle,
     owner |-> owner, coverArt |-> coverArt, trackList |-> trackList]

TrackEntry(title, subtitle, uri) ==
    [title |-> title, subtitle |-> subtitle, uri |-> uri]

\* a track of the playlist with the outcomes of its two outbound calls
TrackCase(entry, page, info) == [entry |-> entry, page |-> page, info |-> info]

HighPage == PageEntity(TrackEntity(CoverArt(TRUE, List("list", <<TrackImageLow, TrackImageHigh>>))))

\* the tracks the longer playlists are made of
TrackCases ==
    {TrackCase(TrackEntry(TitleA, AliceBob, UriWithId), HighPage, InfoMatch1),
     TrackCase(TrackEntry(TitleB, Absent, UriWithId), PageRaise, InfoEmpty),
     TrackCase(TrackEntry(TitleA, <<"B","o","b">>, Absent), PageNoScript,
               InfoRaise),
     TrackCase(TrackEntry(TitleB, <<"B","o","b">>, UriWithId),
               PageEntity(TrackEntity(CoverArt(TRUE, List("list", <<>>)))), InfoMatch2),
     TrackCase(TrackEntry(TitleA, AliceBob, UriWithId), PageStatus(404),
               InfoNone),
     TrackCase(TrackEntry(TitleB, AliceBob, UriWithId), PageNoPath,
               InfoMatch1)}

ValidUrl ==
    <<"o",".","s",".","c","/">> \o PlaylistSlash \o <<"3","7","i","?","s","=","1">>

RequestUrls ==
    {ValidUrl, Absent, <<>>, None, PlaylistSlash, <<"a","l","b","u","m","/","3">>}

JaneSubtitle == <<"J","a","n","e">>

DefaultEntity == Entity(<<"Mix">>, JaneSubtitle, Absent,
                        CoverArt(TRUE, List("list", <<ImageLow, ImageHigh>>)), <<>>)

\* the data of a playlist of one track, for the pages that fail to
\* deliver it
OneTrackEntity ==
    [name |-> <<"Mix">>, description |-> Absent, subtitle |-> JaneSubtitle,
     owner |-> Absent,
     coverArt |-> CoverArt(TRUE, List("list", <<ImageLow, ImageHigh>>)),
     trackList |-> <<[title |-> TitleA, subtitle |-> AliceBob,
                      uri |-> UriWithId]>>]

ConvertRequest(body, descriptors, infos) ==
    [op |-> "convert",
     req |-> [body |-> body, tracks |-> descriptors, url |-> Absent],
     env |-> [page |-> PageRaise, art |-> <<>>, search |-> infos]]

PlaylistRequest(body, url, page, pages, infos) ==
    [op |-> "playlist",
     req |-> [body |-> body, tracks |-> <<>>, url |-> url],
     env |-> [page |-> page, art |-> pages, search |-> infos]]

\* a playlist request that reaches the pools with the track cases cs
PoolRequest(subtitle, owner, coverArt, cs) ==
    PlaylistRequest("dict", ValidUrl,
        PageEntity(Entity(<<"Mix">>, subtitle, owner, coverArt,
                          [k \in 1..Len(cs) |-> cs[k].entry])),
        [k \in 1..Len(cs) |-> cs[k].page],
        [k \in 1..Len(cs) |-> cs[k].info])

\* requests rejected before or at the playlist page
RejectedRequests ==
    {ConvertRequest(b, <<>>, <<>>) : b \in {"none", "unparsable", "dict"}}
    \cup {PlaylistRequest(b, Absent, PageRaise, <<>>, <<>>) :
            b \in {"none", "unparsable"}}
    \cup {PlaylistRequest("dict", u, PageEntity(DefaultEntity), <<>>, <<>>) :
            u \in RequestUrls}
    \cup {PlaylistRequest("dict", ValidUrl, p, <<>>, <<>>) :
            p \in {PageRaise, PageStatus(404), PageStatus(500), PageNoScript,
                   Page("response", 200, TRUE, FALSE, DefaultEntity)}}
    \cup {PlaylistRequest("dict", ValidUrl,
                 Page(k, st, FALSE, pa, OneTrackEntity), <<HighPage>>,
                 <<InfoMatch1>>) :
            k \in {"raise", "response"}, st \in {200, 404},
            pa \in BOOLEAN}
    \cup {PlaylistRequest("dict", ValidUrl,
                 Page("response", 200, TRUE, FALSE, OneTrackEntity),
                 <<HighPage>>, <<InfoMatch1>>)}

\* a descriptor of a batch with the outcome of its search
ConvertCases == Descriptors \X Infos

ConvertRequests ==
    {ConvertRequest("dict", [k \in 1..Len(cs) |-> cs[k][1]],
                    [k \in 1..Len(cs) |-> cs[k][2]]) :
        cs \in SeqsOf(ConvertCases, 1, MaxTracks)}

HighCover == CoverArt(TRUE, List("list", <<ImageLow, ImageHigh>>))

DefaultEntry == TrackEntry(TitleA, AliceBob, UriWithId)

\* the playlists of one track: every entry, every track page, every
\* catalog outcome
OneTrackCases ==
    {TrackCase(TrackEntry(t, s, u), HighPage, InfoMatch1) :
        t \in {TitleA, Absent}, s \in TrackSubtitles, u \in TrackUris}
    \cup {TrackCase(DefaultEntry, p, i) : p \in TrackPages, i \in Infos}
    \cup {TrackCase(TrackEntry(TitleB, Absent, u), p, InfoEmpty) :
            u \in TrackUris, p \in TrackPages}

PlaylistRequests ==
    {PoolRequest(s, o, c, <<>>) :
        s \in OwnerSubtitles, o \in Owners, c \in PlaylistCovers}
    \cup {PoolRequest(JaneSubtitle, Absent, c, <<tc>>) :
            c \in PlaylistCovers, tc \in OneTrackCases}
    \cup {PoolRequest(JaneSubtitle, Absent, c, cs) :
            c \in {HighCover, CoverArt(FALSE, List("absent", <<>>))},
            cs \in SeqsOf(TrackCases, 2, MaxTracks)}

Requests == RejectedRequests \cup ConvertRequests \cup PlaylistRequests

\* the track of position k of a playlist that fills both pools
PoolCase(k) ==
    IF k % 2 = 1
      THEN TrackCase(TrackEntry(TitleA, Absent, UriWithId), HighPage,
                     InfoMatch1)
      ELSE TrackCase(TrackEntry(TitleB, Absent, UriWithId), PageRaise,
                     InfoEmpty)

\* playlists with more tracks than the larger pool has workers, and a few
\* requests of every other kind
FullPoolRequests ==
    {PoolRequest(JaneSubtitle, Absent, HighCover,
                 [k \in 1..(ArtworkWorkers + PoolExtra) |-> PoolCase(k)])}
    \cup RejectedRequests
    \cup {ConvertRequest("dict", <<d>>, <<InfoMatch1>>) : d \in Descriptors}

\* the state of the handler when the request arrives
Start(r) ==
    /\ op = r.op
    /\ req = r.req
    /\ env = r.env
    /\ pc = "start"
    /\ loc = [i |-> 1, bound |-> FALSE, title |-> None, artists |-> None]
    /\ results = <<>>
    /\ response = NoResponse
    /\ playlist_id = None
    /\ owner_name = None
    /\ cover_image_url = None
    /\ track_data_list = <<>>
    /\ artFutures = <<>>
    /\ art_results_dict = <<>>
    /\ tracks = <<>>
    /\ ytFutures = <<>>
    /\ yt_results_dict = <<>>
    /\ calls = [playlist |-> 0,
                art |-> [k \in 1..Len(r.env.art) |-> 0],
                search |-> [k \in 1..Len(r.env.search) |-> <<>>]]

Init == \E r \in Requests : Start(r)

InitFullPool == \E r \in FullPoolRequests : Start(r)

Next ==
    \/ ConvertValidate
    \/ ConvertTrack
    \/ ConvertRespond
    \/ PlaylistValidate
    \/ PlaylistFetch
    \/ PlaylistExtract
    \/ ArtSubmit
    \/ \E i \in 1..Len(artFutures) : ArtStart(i)
    \/ \E i \in 1..Len(artFutures) : ArtFinish(i)
    \/ \E i \in 1..Len(artFutures) : ArtCollect(i)
    \/ ArtJoin
    \/ YtSubmit
    \/ \E i \in 1..Len(ytFutures) : YtStart(i)
    \/ \E i \in 1..Len(ytFutures) : YtFinish(i)
    \/ \E i \in 1..Len(ytFutures) : YtCollect(i)
    \/ Aggregate

Spec == Init /\ [][Next]_vars

\* the same handlers, serving playlists that fill both pools
SpecFullPool == InitFullPool /\ [][Next]_vars

\* every request of Requests, and a playlist with more tracks than the
\* matcher pool has workers
FairRequests ==
    Requests
    \cup {PoolRequest(JaneSubtitle, Absent, HighCover,
                      [k \in 1..(MatcherWorkers + PoolExtra) |-> PoolCase(k)])}

InitFair == \E r \in FairRequests : Start(r)

\* fair scheduling: the handler's thread and the worker threads are not
\* suspended for ever, and every outbound call returns or times out
\* (timeout=10 at line 215, timeout=3 at line 277), so that a step that
\* can be taken is eventually taken
SpecFair == InitFair /\ [][Next]_vars /\ WF_vars(Next)

-----------------------------------------------------------------------------
(* What the properties below speak of *)

\* the track list of the playlist page, as the Page Source holds it
SourceTracks == env.page.entity.trackList

\* the request is an import_playlist request whose playlist page is
\* fetched and extracted, so that it reaches the two pools
ReachesPools ==
    /\ op = "playlist"
    /\ req.body = "dict"
    /\ Truthy(req.url)
    /\ MatchStarts(req.url) # {}
    /\ env.page.kind = "response"
    /\ env.page.status = 200
    /\ env.page.script
    /\ env.page.path
    /\ env.page.entity.subtitle # None

\* the handler has returned a success response
Succeeded == pc = "done" /\ response.status = 200

\* the catalog has no candidate for track k
NoCandidates(k) ==
    env.search[k].kind # "raise" /\ ~HasCandidates(env.search[k])

\* the URL the track page of track k offers, when it offers one
OfferedArt(k) ==
    LET srcs == env.art[k].entity.coverArt.sources.items
    IN  srcs[Len(srcs)]

\* the lookup of the artwork of track k yields none: no track id, a fetch
\* that raises, a status other than 200, no embedded block, no data path,
\* no sources
NoArtwork(k) ==
    \/ ~Truthy(TrackId(Get(SourceTracks[k].uri, <<>>)))
    \/ env.art[k].kind = "raise"
    \/ env.art[k].status # 200
    \/ ~env.art[k].script
    \/ ~env.art[k].path
    \/ ~env.art[k].entity.coverArt.has
    \/ env.art[k].entity.coverArt.sources.kind # "list"
    \/ env.art[k].entity.coverArt.sources.items = <<>>

\* the cover URL of the playlist: the 'url' of its last source
PlaylistCover ==
    LET c == env.page.entity.coverArt
    IN  IF c.has /\ c.sources.kind = "list" /\ c.sources.items # <<>>
          /\ c.sources.items[Len(c.sources.items)] # Absent
          THEN c.sources.items[Len(c.sources.items)]
          ELSE None

-----------------------------------------------------------------------------
(* C1: import_playlist answers every request that reaches the pools, under *)
(* every order in which the workers of the two pools complete, with one    *)
(* result per source track, in source order: result k carries the title    *)
(* and the artists of source track k, and the match of track k's own       *)
(* search.                                                                 *)
C1_OrderPreserved ==
    (ReachesPools /\ pc = "done") =>
        /\ response.status = 200
        /\ Len(response.results) = Len(SourceTracks)
        /\ \A k \in 1..Len(SourceTracks) :
              LET r == response.results[k]
                  t == SourceTracks[k]
              IN  /\ r.title = (IF t.title = Absent THEN Unknown ELSE t.title)
                  /\ r.artists = TrackArtists(Get(t.subtitle, <<>>))
                  /\ r.success = HasCandidates(env.search[k])
                  /\ HasCandidates(env.search[k]) =>
                        /\ r.youtubeTitle = env.search[k].entries[1].title
                        /\ r.youtubeId =
                              Get(env.search[k].entries[1].id, None)

\* a playlist of two tracks of different titles and different catalog
\* outcomes has been answered
C1_Witness ==
    /\ ReachesPools
    /\ Succeeded
    /\ Len(SourceTracks) = 2
    /\ SourceTracks[1].title # SourceTracks[2].title
    /\ response.results[1].success
    /\ ~response.results[2].success
    /\ response.results[1].title = TitleB
    /\ response.results[2].title = TitleA

-----------------------------------------------------------------------------
(* C2: in every success response of either handler, summary.successful +  *)
(* summary.failed = summary.total, summary.total is the number of result   *)
(* entries and summary.successful the number of entries with success true. *)
C2_SummaryConsistent ==
    response.status = 200 =>
        /\ response.summary.successful + response.summary.failed
              = response.summary.total
        /\ response.summary.total = Len(response.results)
        /\ response.summary.successful =
              Cardinality({k \in 1..Len(response.results) :
                              response.results[k].success})

\* a success response with a matched and an unmatched track
C2_Witness ==
    /\ Succeeded
    /\ response.summary.total = 2
    /\ response.summary.successful = 1
    /\ response.summary.failed = 1
    /\ \E k \in 1..2 : response.results[k].success
                         /\ response.results[k].youtubeId = None

-----------------------------------------------------------------------------
(* C3: in import_playlist a track whose artwork fetch or catalog search    *)
(* fails does not abort the request and does not touch the other tracks:   *)
(* the request ends with a success response holding an entry for every     *)
(* track, the failing track's entry being a record with success false      *)
(* (search) or carrying the playlist cover (artwork), every other entry    *)
(* being the track's own match and its own artwork.                        *)
C3_FailureIsolated ==
    (ReachesPools /\ pc = "done") =>
        /\ response.status = 200
        /\ DOMAIN response.results = 1..Len(SourceTracks)
        /\ \A k \in 1..Len(SourceTracks) :
              LET r == response.results[k]
              IN  /\ NoArtwork(k) => r.albumArt = cover_image_url
                  /\ ~NoArtwork(k) => r.albumArt = Get(OfferedArt(k), None)
                  /\ ~HasCandidates(env.search[k]) =>
                        ~r.success /\ r.youtubeId = None /\ r.error # None
                  /\ HasCandidates(env.search[k]) =>
                        r.success /\ r.error = None

\* a playlist of two tracks has been answered: the artwork fetch of one
\* raised and its search found nothing, the other has its artwork and match
C3_Witness ==
    /\ ReachesPools
    /\ Succeeded
    /\ Len(SourceTracks) = 2
    /\ \E k \in 1..2 :
          /\ env.art[k].kind = "raise"
          /\ ~HasCandidates(env.search[k])
          /\ Truthy(track_data_list[k].track_id)
          /\ response.results[k].albumArt = ImageHigh
          /\ ~response.results[k].success
          /\ response.results[3 - k].albumArt = TrackImageHigh
          /\ response.results[3 - k].success

-----------------------------------------------------------------------------
(* C4: in both handlers, a track for which the catalog returns no          *)
(* candidate gets an entry with success false, a non-empty error and a     *)
(* null youtubeId, and every track of the batch for which the catalog      *)
(* returns a candidate gets that candidate, whatever the other tracks got. *)
C4_NoCandidates ==
    /\ (op = "playlist" /\ Succeeded) =>
          \A k \in 1..Len(SourceTracks) :
             LET r == response.results[k]
             IN  /\ NoCandidates(k) =>
                      /\ r.success = FALSE
                      /\ r.youtubeId = None
                      /\ r.error \notin {None, Absent, <<>>}
                 /\ HasCandidates(env.search[k]) =>
                      /\ r.success = TRUE
                      /\ r.youtubeId = Get(env.search[k].entries[1].id, None)
    /\ (op = "convert" /\ Succeeded) =>
          \A k \in 1..Len(req.tracks) :
             LET r == response.results[k]
             IN  /\ (WellFormed(req.tracks[k]) /\ NoCandidates(k)) =>
                      /\ r.success = FALSE
                      /\ r.youtubeId = None
                      /\ "error" \in DOMAIN r
                      /\ r.error \notin {None, Absent, <<>>}
                 /\ (WellFormed(req.tracks[k])
                       /\ HasCandidates(env.search[k])) =>
                      /\ r.success = TRUE
                      /\ r.youtubeId = Get(env.search[k].entries[1].id, None)

\* a playlist has been answered in which the catalog had no candidate for
\* one track and a candidate for the track after or before it
C4_Witness ==
    /\ op = "playlist"
    /\ Succeeded
    /\ Len(SourceTracks) = 2
    /\ \E k \in 1..2 :
          /\ NoCandidates(k)
          /\ response.results[k].error = NoResultsFound
          /\ HasCandidates(env.search[3 - k])
          /\ response.results[3 - k].youtubeId = <<"vid1">>

-----------------------------------------------------------------------------
(* C5: in import_playlist, when the playlist has a cover URL, every track  *)
(* whose artwork lookup yields no artwork (no track id, fetch error or     *)
(* timeout, status other than 200, no embedded block, no data path, no or  *)
(* empty sources list) has albumArt equal to the playlist's cover URL and  *)
(* not null, in the joined tracks and in the response.                     *)
C5_CoverFallback ==
    (ReachesPools /\ PlaylistCover # None) =>
        /\ \A k \in 1..Len(tracks) :
              NoArtwork(k) =>
                 tracks[k].albumArt = PlaylistCover /\ tracks[k].albumArt # None
        /\ Succeeded =>
              \A k \in 1..Len(SourceTracks) :
                 NoArtwork(k) => response.results[k].albumArt = PlaylistCover

\* a playlist with a cover has been answered, one of whose tracks has a
\* track id and a track page without sources
C5_Witness ==
    /\ ReachesPools
    /\ Succeeded
    /\ PlaylistCover = ImageHigh
    /\ \E k \in 1..Len(SourceTracks) :
          /\ Truthy(track_data_list[k].track_id)
          /\ env.art[k].kind = "response"
          /\ env.art[k].status = 200
          /\ env.art[k].script
          /\ env.art[k].path
          /\ env.art[k].entity.coverArt.sources = List("list", <<>>)
          /\ calls.art[k] = 1
          /\ response.results[k].albumArt = ImageHigh

-----------------------------------------------------------------------------
(* C6: an import_playlist request whose playlist markup has no embedded    *)
(* data block ends with the client error 400, and at no point of the       *)
(* request is a task of either pool submitted, a track page fetched or a   *)
(* catalog search issued.                                                  *)
C6_NoBlockAborts ==
    (op = "playlist" /\ ~env.page.script) =>
        /\ (pc = "done" /\ calls.playlist = 1 /\ env.page.kind = "response"
              /\ env.page.status = 200)
             => (response.status = 400 /\ "error" \in DOMAIN response)
        /\ artFutures = <<>>
        /\ ytFutures = <<>>
        /\ \A k \in 1..Len(calls.art) : calls.art[k] = 0
        /\ \A k \in 1..Len(calls.search) : calls.search[k] = <<>>

\* the request for a playlist page that holds a track, but not in an
\* embedded data block, has been answered
C6_Witness ==
    /\ op = "playlist"
    /\ pc = "done"
    /\ calls.playlist = 1
    /\ env.page.kind = "response"
    /\ env.page.status = 200
    /\ ~env.page.script
    /\ env.page.path
    /\ Len(SourceTracks) = 1
    /\ response.status = 400

-----------------------------------------------------------------------------
(* C7: a request with malformed or missing required input (no body; for    *)
(* convert_tracks no 'tracks' or an empty list; for import_playlist no     *)
(* 'url' or a URL without a playlist id) ends with a client error carrying *)
(* an error message, and no outbound call is issued for it.                *)
MalformedInput ==
    \/ req.body # "dict"
    \/ op = "convert" /\ req.tracks = <<>>
    \/ op = "playlist" /\ ~Truthy(req.url)
    \/ op = "playlist" /\ Truthy(req.url) /\ MatchStarts(req.url) = {}

C7_MalformedRejected ==
    MalformedInput =>
        /\ pc = "done" =>
              (response.status = 400 /\ "error" \in DOMAIN response)
        /\ calls.playlist = 0
        /\ \A k \in 1..Len(calls.art) : calls.art[k] = 0
        /\ \A k \in 1..Len(calls.search) : calls.search[k] = <<>>

-----------------------------------------------------------------------------
(* C8: at every moment of an import_playlist request at most 10 tasks of   *)
(* the artwork pool and at most 5 tasks of the matcher pool are running,   *)
(* so at most that many track page fetches and catalog searches are in     *)
(* flight, for every number of tracks; the matcher pool is the smaller.    *)
C8_PoolsBounded ==
    /\ Cardinality(Running(artFutures)) <= 10
    /\ Cardinality(Running(ytFutures)) <= 5
    /\ Cardinality(Running(artFutures)) <= ArtworkWorkers
    /\ Cardinality(Running(ytFutures)) <= MatcherWorkers
    /\ MatcherWorkers < ArtworkWorkers

\* the artwork pool is full while a task waits in its queue
C8_Witness ==
    /\ Len(track_data_list) > ArtworkWorkers
    /\ Cardinality(Running(artFutures)) = ArtworkWorkers
    /\ \E k \in 1..Len(artFutures) : artFutures[k].st = "queued"

-----------------------------------------------------------------------------
(* C9: the owner name is resolved by the chain: the trimmed second segment *)
(* of the subtitle when the subtitle holds the separator; else the owner   *)
(* object's name; else the placeholder; an empty trimmed value counting as *)
(* absent at each step.                                                    *)
OwnerChain(subtitle, owner) ==
    LET sub    == IF subtitle \in {Absent, None} THEN <<>> ELSE subtitle
        parts  == Split(sub, MiddleDot)
        second == IF Len(parts) >= 2 THEN Strip(parts[2]) ELSE <<>>
        named  == IF owner \in {Absent, None} THEN <<>> ELSE Strip(owner)
    IN  IF second # <<>> THEN second
        ELSE IF named # <<>> THEN named
        ELSE SpotifyUser

C9_OwnerChain ==
    (ReachesPools /\ pc \in {"art", "yt", "done"}) =>
        owner_name = OwnerChain(env.page.entity.subtitle,
                                env.page.entity.owner)

-----------------------------------------------------------------------------
(* C10: the artists of every entry of track_data_list are a non-empty      *)
(* list: the subtitle split on commas, one artist per segment, each        *)
(* trimmed ("Alice, Bob" gives ["Alice", "Bob"]), and the single           *)
(* placeholder artist when the subtitle is empty or absent.                *)
C10_ArtistsNeverEmpty ==
    \A k \in 1..Len(track_data_list) :
        LET subtitle == SourceTracks[k].subtitle
            artists  == track_data_list[k].artists
            commas   == {j \in 1..Len(subtitle) : subtitle[j] = ","}
        IN  /\ Len(artists) >= 1
            /\ subtitle \in {Absent, None, <<>>} => artists = <<UnknownArtist>>
            /\ subtitle = AliceBob =>
                  artists = << <<"A","l","i","c","e">>, <<"B","o","b">> >>
            /\ subtitle \notin {Absent, None, <<>>} =>
                  /\ Len(artists) = Cardinality(commas) + 1
                  /\ \A j \in 1..Len(artists) :
                        /\ \A c \in 1..Len(artists[j]) : artists[j][c] # ","
                        /\ artists[j] # <<>> =>
                              /\ artists[j][1] \notin Whitespace
                              /\ artists[j][Len(artists[j])] \notin Whitespace

\* track_data_list holds the artists of a track with subtitle "Alice, Bob"
C10_Witness ==
    \E k \in 1..Len(track_data_list) :
        /\ SourceTracks[k].subtitle = AliceBob
        /\ Len(track_data_list[k].artists) = 2

-----------------------------------------------------------------------------
(* C11: the cover of the playlist is the 'url' of the last element of its  *)
(* sources list when the list is not empty, not that of the first, and     *)
(* null when the list is empty or absent; the artwork of a track whose     *)
(* page is delivered is the 'url' of the last element of the page's        *)
(* sources list, not that of the first, and the playlist cover when that   *)
(* list is empty or absent.                                                *)
SourceItems(coverArt) ==
    IF coverArt.has /\ coverArt.sources.kind = "list"
      THEN coverArt.sources.items
      ELSE <<>>

\* what selecting from the items must give: the last 'url', never the
\* first where the two differ, the fallback when there are no items
SelectsLast(items, selected, fallback) ==
    /\ items # <<>> => selected = Get(items[Len(items)], None)
    /\ (items # <<>> /\ items[1] # items[Len(items)]) => selected # items[1]
    /\ items = <<>> => selected = fallback

\* the track page of track k is fetched and holds the entity
PageDelivered(k) ==
    /\ Truthy(TrackId(Get(SourceTracks[k].uri, <<>>)))
    /\ env.art[k].kind = "response"
    /\ env.art[k].status = 200
    /\ env.art[k].script
    /\ env.art[k].path

C11_LastSource ==
    (ReachesPools /\ pc \in {"art", "yt", "done"}) =>
        /\ SelectsLast(SourceItems(env.page.entity.coverArt),
                       cover_image_url, None)
        /\ \A k \in 1..Len(artFutures) :
              (PageDelivered(k) /\ artFutures[k].st \in {"finished", "yielded"})
                 => SelectsLast(SourceItems(env.art[k].entity.coverArt),
                                artFutures[k].result, cover_image_url)
        /\ \A k \in 1..Len(tracks) :
              PageDelivered(k) =>
                 SelectsLast(SourceItems(env.art[k].entity.coverArt),
                             tracks[k].albumArt, cover_image_url)
        /\ Succeeded =>
              /\ response.playlist.coverImageUrl = cover_image_url
              /\ \A k \in 1..Len(SourceTracks) :
                    PageDelivered(k) =>
                       SelectsLast(SourceItems(env.art[k].entity.coverArt),
                                   response.results[k].albumArt,
                                   response.playlist.coverImageUrl)

\* a playlist whose cover has two sources has been answered; one of its
\* tracks has a page with two sources, another a page with none
C11_Witness ==
    /\ ReachesPools
    /\ Succeeded
    /\ SourceItems(env.page.entity.coverArt) = <<ImageLow, ImageHigh>>
    /\ response.playlist.coverImageUrl = ImageHigh
    /\ Len(SourceTracks) = 2
    /\ \E k \in 1..2 :
          /\ PageDelivered(k)
          /\ SourceItems(env.art[k].entity.coverArt)
                = <<TrackImageLow, TrackImageHigh>>
          /\ response.results[k].albumArt = TrackImageHigh
          /\ PageDelivered(3 - k)
          /\ SourceItems(env.art[3 - k].entity.coverArt) = <<>>
          /\ response.results[3 - k].albumArt = ImageHigh

-----------------------------------------------------------------------------
(* C12: the response of import_playlist is the response of a sequential    *)
(* reference that processes the tracks one by one in index order: it       *)
(* depends on the extracted playlist data and on each track's artwork and  *)
(* catalog outcomes only, not on the order in which the workers of the two *)
(* pools are scheduled and complete.                                       *)
SequentialArt(k) ==
    fetch_track_album_art(TrackData(SourceTracks[k]), env.art[k])

SequentialMatch(k) ==
    fetch_youtube_id(TrackData(SourceTracks[k]), env.search[k])

RECURSIVE SequentialResults(_)
\* the results of the first n tracks, track n processed after track n - 1
SequentialResults(n) ==
    IF n = 0 THEN <<>>
    ELSE Append(SequentialResults(n - 1),
                Combine([title |-> TrackData(SourceTracks[n]).title,
                         artists |-> TrackData(SourceTracks[n]).artists,
                         albumArt |-> SequentialArt(n)],
                        SequentialMatch(n)))

SequentialResponse ==
    LET rs == SequentialResults(Len(SourceTracks))
    IN  [status |-> 200,
         playlist |-> [name |-> Get(env.page.entity.name, UnknownPlaylist),
                       id |-> MatchGroup(req.url),
                       description |-> Get(env.page.entity.description, None),
                       coverImageUrl |-> CoverImageUrl(env.page.entity),
                       ownerName |-> OwnerName(env.page.entity)],
         results |-> rs,
         summary |-> [total |-> Len(rs),
                      successful |-> Successful(rs),
                      failed |-> Len(rs) - Successful(rs)]]

C12_SequentialEquivalent ==
    ReachesPools =>
        /\ \A k \in DOMAIN art_results_dict :
              art_results_dict[k] = SequentialArt(k)
        /\ \A k \in DOMAIN yt_results_dict :
              yt_results_dict[k] = SequentialMatch(k)
        /\ pc = "done" => response = SequentialResponse

\* a playlist of two tracks with different artwork and different catalog
\* outcomes has been answered with the reference's response
C12_Witness ==
    /\ ReachesPools
    /\ pc = "done"
    /\ Len(SourceTracks) = 2
    /\ SequentialArt(1) # SequentialArt(2)
    /\ SequentialMatch(1) # SequentialMatch(2)
    /\ response = SequentialResponse
    /\ response.results[1] # response.results[2]

-----------------------------------------------------------------------------
(* C13: an import_playlist request whose playlist fetch raises, answers    *)
(* with a status other than 200, or delivers markup without the embedded   *)
(* block or without a segment of the path to the entity, ends with an      *)
(* error response after exactly one playlist fetch; the fetch is never     *)
(* repeated, and no track page is fetched and no catalog search issued.    *)
(* A track page without a segment of the path is not fatal: the request    *)
(* succeeds and the track carries the playlist cover.                      *)
ValidPlaylistRequest ==
    /\ op = "playlist"
    /\ req.body = "dict"
    /\ Truthy(req.url)
    /\ MatchStarts(req.url) # {}

PlaylistLevelFailure ==
    /\ ValidPlaylistRequest
    /\ \/ env.page.kind = "raise"
       \/ env.page.status # 200
       \/ ~env.page.script
       \/ ~env.page.path

\* the page of track k is fetched and lacks a segment of the path
TrackPathMissing(k) ==
    /\ Truthy(TrackId(Get(SourceTracks[k].uri, <<>>)))
    /\ env.art[k].kind = "response"
    /\ env.art[k].status = 200
    /\ env.art[k].script
    /\ ~env.art[k].path

C13_PlaylistFailureFatal ==
    /\ calls.playlist <= 1
    /\ PlaylistLevelFailure =>
          /\ pc = "done" =>
                /\ calls.playlist = 1
                /\ response.status \in {400, 500}
                /\ "error" \in DOMAIN response
                /\ "results" \notin DOMAIN response
          /\ pc \in {"start", "fetch", "extract", "done"}
          /\ artFutures = <<>>
          /\ ytFutures = <<>>
          /\ \A k \in 1..Len(calls.art) : calls.art[k] = 0
          /\ \A k \in 1..Len(calls.search) : calls.search[k] = <<>>
    /\ (ReachesPools /\ pc = "done") =>
          /\ response.status = 200
          /\ \A k \in 1..Len(SourceTracks) :
                TrackPathMissing(k) =>
                   response.results[k].albumArt = cover_image_url

\* the request for a playlist page whose embedded block holds a track, but
\* not under the path to the entity, has been answered
C13_Witness ==
    /\ PlaylistLevelFailure
    /\ pc = "done"
    /\ env.page.kind = "response"
    /\ env.page.status = 200
    /\ env.page.script
    /\ ~env.page.path
    /\ env.page.entity = OneTrackEntity
    /\ env.art # <<>>
    /\ calls.playlist = 1
    /\ response.status = 500

-----------------------------------------------------------------------------
(* C14: within one request each track gets a single attempt: at most one   *)
(* artwork fetch per track, none for a track without a track id, and       *)
(* exactly one catalog search per track, whatever the attempt gives; no    *)
(* attempt is repeated, in convert_tracks and in import_playlist.  The     *)
(* tracks of a convert_tracks batch are taken to be its well-formed        *)
(* descriptors.                                                            *)
NonEmptyBatch == op = "convert" /\ req.body = "dict" /\ req.tracks # <<>>

C14_SingleAttempt ==
    /\ \A k \in 1..Len(calls.art) :
          /\ calls.art[k] <= 1
          /\ (ReachesPools
                /\ ~Truthy(TrackId(Get(SourceTracks[k].uri, <<>>))))
               => calls.art[k] = 0
    /\ \A k \in 1..Len(calls.search) : Len(calls.search[k]) <= 1
    /\ (ReachesPools /\ pc = "done") =>
          \A k \in 1..Len(SourceTracks) : Len(calls.search[k]) = 1
    /\ (NonEmptyBatch /\ pc = "done") =>
          \A k \in 1..Len(req.tracks) :
             WellFormed(req.tracks[k]) => Len(calls.search[k]) = 1

-----------------------------------------------------------------------------
(* C15: under fair scheduling every request is eventually answered, for    *)
(* every number of tracks (none, fewer than a pool has workers, more than  *)
(* a pool has workers); and import_playlist answers with success only when *)
(* every artwork task and every matcher task has completed and been        *)
(* collected and each results_dict holds an entry for every index.         *)
AllCompleted(futures, results_dict) ==
    /\ Len(futures) = Len(SourceTracks)
    /\ \A k \in 1..Len(futures) : futures[k].st = "yielded"
    /\ DOMAIN results_dict = 1..Len(SourceTracks)

-----------------------------------------------------------------------------
(* C16: convert_tracks answers every non-empty batch with success and one  *)
(* result per descriptor, in input order; result i carries the title and   *)
(* the artists of descriptor i and of no other descriptor, also when       *)
(* descriptor i is not a well-formed object, at the first position or      *)
(* after a well-formed one: its error is recorded as its own failure and   *)
(* the request is never answered with a server error.                      *)
C16_DescriptorIsolated ==
    (NonEmptyBatch /\ pc = "done") =>
        /\ response.status = 200
        /\ Len(response.results) = Len(req.tracks)
        /\ \A k \in 1..Len(req.tracks) :
              LET r == response.results[k]
                  d == req.tracks[k]
              IN  IF d.isdict
                    THEN /\ r.title = Get(d.title, <<>>)
                         /\ r.artists = ListValue(d.artists, <<>>)
                         /\ ~WellFormed(d) => ~r.success
                    ELSE /\ ~r.success
                         /\ \A j \in 1..Len(req.tracks) :
                               (j # k /\ req.tracks[j].isdict
                                  /\ req.tracks[j].title # Absent)
                                 => r.title # req.tracks[j].title

-----------------------------------------------------------------------------
(* C17: in import_playlist the two stages never overlap: a matcher task is *)
(* submitted, and a catalog search issued, only when every artwork task    *)
(* has completed and its result has been collected, so the tasks running   *)
(* at any moment belong to one stage; and the query of a track's search is *)
(* made of its title and artists only, whatever its artwork lookup gave.   *)
SearchIssued(k) == calls.search[k] # <<>>

C17_StagesDisjoint ==
    op = "playlist" =>
        /\ (ytFutures # <<>> \/ \E k \in 1..Len(calls.search) : SearchIssued(k))
              => AllCompleted(artFutures, art_results_dict)
        /\ Running(artFutures) = {} \/ Running(ytFutures) = {}
        /\ \A k \in 1..Len(calls.search) :
              SearchIssued(k) =>
                 calls.search[k] =
                    << Query(TrackArtists(Get(SourceTracks[k].subtitle, <<>>)),
                             Get(SourceTracks[k].title, Unknown)) >>

\* the searches of two tracks are running, the artwork fetch of one of
\* which raised while the other has its own artwork; every artwork task
\* is completed and collected
C17_Witness ==
    /\ ReachesPools
    /\ pc = "yt"
    /\ Len(SourceTracks) = 2
    /\ Running(ytFutures) = {1, 2}
    /\ SearchIssued(1)
    /\ SearchIssued(2)
    /\ AllCompleted(artFutures, art_results_dict)
    /\ \E k \in 1..2 :
          /\ calls.art[k] = 1
          /\ env.art[k].kind = "raise"
          /\ tracks[k].albumArt = cover_image_url
          /\ tracks[3 - k].albumArt = TrackImageHigh

=============================================================================
